---- MODULE Spec2Model ----
(***************************************************************************)
(* fast_update/copy.py: value encoders, the lazy binary mechanism, the     *)
(* streaming writer copy_from with its helper thread and pipe, and the     *)
(* orchestrator copy_update.                                               *)
(*                                                                         *)
(* Byte strings and str objects are kept run-length compressed: a string   *)
(* is a sequence of runs [k, t, lo, hi], each standing for the hi - lo     *)
(* consecutive elements lo .. hi-1 of the source named by kind k and tag   *)
(* t.  Kinds:                                                              *)
(*   "c"  one concrete character/byte named t (lo = 0, hi = 1)             *)
(*   "s"  ordinary printable one-byte characters of the text source t      *)
(*   "r"  the raw bytes of the bytes object t                              *)
(*   "h"  the hex digits of the bytes object t (digit 2i, 2i+1 <-> byte i) *)
(* Strings are kept in normal form (adjacent runs of one source merged),   *)
(* so two strings are equal exactly when they hold the same bytes.         *)
(***************************************************************************)
EXTENDS Integers, Sequences, FiniteSets, TLC

(* ------------------------------------------------------------------ *)
(* Program constants                                                   *)
(* ------------------------------------------------------------------ *)
\* copy_from: "if len(payload) > 65535" and "while length - pos > 65535"
THRESHOLD == 65535
\* copy_from: fw.write(m[pos:pos+65536]); pos += 65536
CHUNK == 65536
\* _lazy_binary: slices of 65536 input bytes
LAZY_SLICE == 65536
\* Binary / BinaryOrNone: "if len(v) > 4096"
INLINE_MAX == 4096
\* threaded_copy: cur.copy_from(fr, tname, size=65536, ...)
READ_SIZE == 65536

(* ------------------------------------------------------------------ *)
(* Bounds of the model                                                 *)
(* ------------------------------------------------------------------ *)
\* longest record sequence handed to copy_update
MaxRecords == 2
\* capacity of the blocking channel between producer and helper
PipeCap == 65536

(* ------------------------------------------------------------------ *)
(* Compressed strings                                                  *)
(* ------------------------------------------------------------------ *)
Chr(c) == [k |-> "c", t |-> c, lo |-> 0, hi |-> 1]
Run(kind, tag, n) == [k |-> kind, t |-> tag, lo |-> 0, hi |-> n]
RunLen(r) == r.hi - r.lo

\* every compressed string
Strings == Seq([k : STRING, t : STRING, lo : Nat, hi : Nat])

\* The recursive string operations are functions (XOf), applied through an
\* operator of the operation's name: a function's argument is evaluated once.

\* len(s)
BLenOf[s \in Strings] == IF s = <<>> THEN 0 ELSE RunLen(Head(s)) + BLenOf[Tail(s)]

BLen(s) == BLenOf[s]

\* a + b
Concat[a \in Strings, b \in Strings] ==
  IF a = <<>> THEN b
  ELSE IF b = <<>> THEN a
  ELSE LET x == a[Len(a)]
           y == b[1]
       IN IF x.k # "c" /\ x.k = y.k /\ x.t = y.t /\ x.hi = y.lo
          THEN SubSeq(a, 1, Len(a) - 1) \o <<[x EXCEPT !.hi = y.hi]>> \o Tail(b)
          ELSE a \o b

Cat(a, b) == Concat[a, b]

\* the concatenation of a list of strings
CatAllOf[ss \in Seq(Strings)] ==
  IF ss = <<>> THEN <<>> ELSE Concat[Head(ss), CatAllOf[Tail(ss)]]

CatAll(ss) == CatAllOf[ss]

\* s[n:]
DropOf[s \in Strings, n \in Int] ==
  IF n <= 0 \/ s = <<>> THEN s
  ELSE LET h == Head(s)
       IN IF RunLen(h) <= n THEN DropOf[Tail(s), n - RunLen(h)]
          ELSE <<[h EXCEPT !.lo = h.lo + n]>> \o Tail(s)

Drop(s, n) == DropOf[s, n]

\* s[:n]
TakeOf[s \in Strings, n \in Int] ==
  IF n <= 0 \/ s = <<>> THEN <<>>
  ELSE LET h == Head(s)
       IN IF RunLen(h) <= n THEN <<h>> \o TakeOf[Tail(s), n - RunLen(h)]
          ELSE <<[h EXCEPT !.hi = h.lo + n]>>

Take(s, n) == TakeOf[s, n]

\* s[i:j]
Slice(s, from, to) == Take(Drop(s, from), to - from)

\* str.replace(c, to) for a one-character pattern c
ReplaceOf[s \in Strings, c \in STRING, to \in Strings] ==
  IF s = <<>> THEN <<>>
  ELSE IF Head(s) = Chr(c) THEN to \o ReplaceOf[Tail(s), c, to]
  ELSE <<Head(s)>> \o ReplaceOf[Tail(s), c, to]

Replace(s, c, to) == ReplaceOf[s, c, to]

\* data.index(b'\x00', idx): offset of the first 0x00 byte at or after idx,
\* -1 where Python raises ValueError
IndexFromOf[s \in Strings, idx \in Int, base \in Int] ==
  IF s = <<>> THEN -1
  ELSE IF Head(s) = Chr("NUL") /\ base >= idx THEN base
  ELSE IndexFromOf[Tail(s), idx, base + RunLen(Head(s))]

IndexFrom(s, idx, base) == IndexFromOf[s, idx, base]

RECURSIVE CountByte(_, _)
CountByte(s, c) ==
  IF s = <<>> THEN 0
  ELSE (IF Head(s) = Chr(c) THEN 1 ELSE 0) + CountByte(Tail(s), c)

(* ------------------------------------------------------------------ *)
(* Python values: [ty, v] with v the value's characters or bytes       *)
(* (an int is carried as its decimal digits, which is what the row     *)
(* formatting f'{...}' makes of it)                                    *)
(* ------------------------------------------------------------------ *)
PyValues == [ty : STRING, v : Strings]
PyNone == [ty |-> "none", v |-> <<>>]
PyStr(s) == [ty |-> "str", v |-> s]
PyBytes(s) == [ty |-> "bytes", v |-> s]
PyInt(digits) == [ty |-> "int", v |-> digits]

\* NULL = '\\N'
NULL == PyStr(<<Chr("BSL"), Chr("N")>>)
\* LAZY_PLACEHOLDER = '\x00'
LAZY_PLACEHOLDER == <<Chr("NUL")>>

\* the backslash pass made last instead of first
text_escape_backslash_last(v) ==
  Replace(Replace(Replace(Replace(Replace(Replace(Replace(v,
    "BS", <<Chr("BSL"), Chr("b")>>),
    "FF", <<Chr("BSL"), Chr("f")>>),
    "NL", <<Chr("BSL"), Chr("n")>>),
    "CR", <<Chr("BSL"), Chr("r")>>),
    "TAB", <<Chr("BSL"), Chr("t")>>),
    "VT", <<Chr("BSL"), Chr("v")>>),
    "BSL", <<Chr("BSL"), Chr("BSL")>>)

\* text_escape: seven str.replace passes, backslash first
text_escape(v) ==
  Replace(Replace(Replace(Replace(Replace(Replace(Replace(v,
    "BSL", <<Chr("BSL"), Chr("BSL")>>),
    "BS", <<Chr("BSL"), Chr("b")>>),
    "FF", <<Chr("BSL"), Chr("f")>>),
    "NL", <<Chr("BSL"), Chr("n")>>),
    "CR", <<Chr("BSL"), Chr("r")>>),
    "TAB", <<Chr("BSL"), Chr("t")>>),
    "VT", <<Chr("BSL"), Chr("v")>>)

\* bytes.hex() and b2a_hex: byte i of t becomes hex digits 2i, 2i+1 of t
HexOf[b \in Strings] ==
  IF b = <<>> THEN <<>>
  ELSE LET h == Head(b)
       IN Cat(<<[k |-> "h", t |-> h.t, lo |-> 2 * h.lo, hi |-> 2 * h.hi]>>,
              HexOf[Tail(b)])

Hex(b) == HexOf[b]

(* ------------------------------------------------------------------ *)
(* Encoders: enc(v, lazy) returns a value or raises; the result is     *)
(* [err, out, lazy] with lazy the lazy list after the call             *)
(* ------------------------------------------------------------------ *)
Ret(out, lz) == [err |-> FALSE, out |-> out, lazy |-> lz]
Raise(lz) == [err |-> TRUE, out |-> PyNone, lazy |-> lz]

\* isinstance(v, T): bool is a subclass of int, datetime of date
IsInstance(v, T) ==
  \/ v.ty = T
  \/ v.ty = "bool" /\ T = "int"
  \/ v.ty = "datetime" /\ T = "date"

\* the encoders of the shape: if isinstance(v, T): return v; raise TypeError
Strict(Ts, v, lz) ==
  IF \E T \in Ts : IsInstance(v, T) THEN Ret(v, lz) ELSE Raise(lz)

\* ... with: if v is None: return NULL
OrNone(Ts, v, lz) ==
  IF v.ty = "none" THEN Ret(NULL, lz) ELSE Strict(Ts, v, lz)

Int_(v, lz) == Strict({"int"}, v, lz)

IntOrNone(v, lz) == OrNone({"int"}, v, lz)

Boolean(v, lz) == Strict({"bool"}, v, lz)
BooleanOrNone(v, lz) == OrNone({"bool"}, v, lz)
Date(v, lz) == Strict({"date"}, v, lz)
DateOrNone(v, lz) == OrNone({"date"}, v, lz)
Datetime(v, lz) == Strict({"datetime"}, v, lz)
DatetimeOrNone(v, lz) == OrNone({"datetime"}, v, lz)
Numeric(v, lz) == Strict({"Decimal"}, v, lz)
NumericOrNone(v, lz) == OrNone({"Decimal"}, v, lz)
Duration(v, lz) == Strict({"timedelta"}, v, lz)
DurationOrNone(v, lz) == OrNone({"timedelta"}, v, lz)
Float(v, lz) == Strict({"float", "int"}, v, lz)
FloatOrNone(v, lz) == OrNone({"float", "int"}, v, lz)
Time(v, lz) == Strict({"time"}, v, lz)
TimeOrNone(v, lz) == OrNone({"time"}, v, lz)
Uuid(v, lz) == Strict({"UUID"}, v, lz)
UuidOrNone(v, lz) == OrNone({"UUID"}, v, lz)

\* range_factory(_type): a Range value carries the type of its bounds in
\* ty, "Range:int", ...; "Range:none" has a bound that is None
RangeBound(v) ==
  CASE v.ty = "Range:int" -> [ty |-> "int", v |-> <<>>]
    [] v.ty = "Range:Decimal" -> [ty |-> "Decimal", v |-> <<>>]
    [] v.ty = "Range:datetime" -> [ty |-> "datetime", v |-> <<>>]
    [] v.ty = "Range:date" -> [ty |-> "date", v |-> <<>>]
    [] OTHER -> [ty |-> "none", v |-> <<>>]

IsRange(v) ==
  v.ty \in {"Range:int", "Range:Decimal", "Range:datetime", "Range:date",
            "Range:none"}

\* wrap
RangeOf(T, v, lz) ==
  IF IsRange(v) /\ IsInstance(RangeBound(v), T) THEN Ret(v, lz) ELSE Raise(lz)

\* wrap_none
RangeOfOrNone(T, v, lz) ==
  IF v.ty = "none" THEN Ret(NULL, lz) ELSE RangeOf(T, v, lz)

\* '\\\\x' is the two backslashes and the x of the wire prefix
BinaryPrefix == <<Chr("BSL"), Chr("BSL"), Chr("x")>>

Binary(v, lz) ==
  IF v.ty = "bytes"
  THEN IF BLen(v.v) > INLINE_MAX
       THEN Ret(PyStr(BinaryPrefix \o LAZY_PLACEHOLDER), Append(lz, v.v))
       ELSE Ret(PyStr(Cat(BinaryPrefix, Hex(v.v))), lz)
  ELSE Raise(lz)

BinaryOrNone(v, lz) ==
  IF v.ty = "none" THEN Ret(NULL, lz)
  ELSE IF v.ty = "bytes"
  THEN IF BLen(v.v) > INLINE_MAX
       THEN Ret(PyStr(BinaryPrefix \o LAZY_PLACEHOLDER), Append(lz, v.v))
       ELSE Ret(PyStr(Cat(BinaryPrefix, Hex(v.v))), lz)
  ELSE Raise(lz)

Text(v, lz) == IF v.ty = "str" THEN Ret(PyStr(text_escape(v.v)), lz) ELSE Raise(lz)

\* the text handed on without escaping
TextOrNoneRaw(v, lz) ==
  IF v.ty = "none" THEN Ret(NULL, lz)
  ELSE IF v.ty = "str" THEN Ret(PyStr(v.v), lz)
  ELSE Raise(lz)

TextOrNone(v, lz) ==
  IF v.ty = "none" THEN Ret(NULL, lz)
  ELSE IF v.ty = "str" THEN Ret(PyStr(text_escape(v.v)), lz)
  ELSE Raise(lz)

\* the characters named
Txt(cs) == [n \in 1..Len(cs) |-> Chr(cs[n])]

\* json.dumps of a str: quoted, with the JSON escapes
DumpsStr(v) ==
  <<Chr("QUOTE")>> \o
  Replace(Replace(Replace(Replace(Replace(Replace(Replace(v,
    "BSL", <<Chr("BSL"), Chr("BSL")>>),
    "QUOTE", <<Chr("BSL"), Chr("QUOTE")>>),
    "BS", <<Chr("BSL"), Chr("b")>>),
    "FF", <<Chr("BSL"), Chr("f")>>),
    "NL", <<Chr("BSL"), Chr("n")>>),
    "CR", <<Chr("BSL"), Chr("r")>>),
    "TAB", <<Chr("BSL"), Chr("t")>>)
  \o <<Chr("QUOTE")>>

\* json.dumps(v) of None, bool, int, float and str (of backslash, quote,
\* the escapes above and ordinary ASCII); [err, out], err for a value
\* that is not JSON serializable
Dumps(v) ==
  CASE v.ty = "none" -> [err |-> FALSE, out |-> Txt(<<"n", "u", "l", "l">>)]
    [] v.ty = "bool" ->
         [err |-> FALSE,
          out |-> IF v.v = Txt(<<"T", "r", "u", "e">>)
                  THEN Txt(<<"t", "r", "u", "e">>)
                  ELSE Txt(<<"f", "a", "l", "s", "e">>)]
    [] v.ty \in {"int", "float"} -> [err |-> FALSE, out |-> v.v]
    [] v.ty = "str" -> [err |-> FALSE, out |-> DumpsStr(v.v)]
    [] OTHER -> [err |-> TRUE, out |-> <<>>]

\* None handed the NULL token by the strict encoder too
JsonNoneAsNull(v, lz) ==
  IF v.ty = "none" THEN Ret(NULL, lz)
  ELSE IF Dumps(v).err THEN Raise(lz)
  ELSE Ret(PyStr(text_escape(Dumps(v).out)), lz)

Json(v, lz) ==
  IF Dumps(v).err THEN Raise(lz) ELSE Ret(PyStr(text_escape(Dumps(v).out)), lz)

JsonOrNone(v, lz) ==
  IF v.ty = "none" THEN Ret(NULL, lz)
  ELSE IF Dumps(v).err THEN Raise(lz)
  ELSE Ret(PyStr(text_escape(Dumps(v).out)), lz)

\* the escape written for a quote without its backslashes
quote_bare(v) ==
  <<Chr("QUOTE")>>
    \o Replace(v, "QUOTE", <<Chr("QUOTE")>>)
    \o <<Chr("QUOTE")>>

\* '"' + v.replace('"', '\\\\"') + '"': the replacement is two backslashes
\* and the quote
quote(v) ==
  <<Chr("QUOTE")>>
    \o Replace(v, "QUOTE", <<Chr("BSL"), Chr("BSL"), Chr("QUOTE")>>)
    \o <<Chr("QUOTE")>>

\* text_escape_nested: a backslash becomes four, then the control characters
text_escape_nested(v) ==
  Replace(Replace(Replace(Replace(Replace(Replace(Replace(v,
    "BSL", <<Chr("BSL"), Chr("BSL"), Chr("BSL"), Chr("BSL")>>),
    "BS", <<Chr("BSL"), Chr("b")>>),
    "FF", <<Chr("BSL"), Chr("f")>>),
    "NL", <<Chr("BSL"), Chr("n")>>),
    "CR", <<Chr("BSL"), Chr("r")>>),
    "TAB", <<Chr("BSL"), Chr("t")>>),
    "VT", <<Chr("BSL"), Chr("v")>>)

\* SQL_NULL = 'NULL'
SQL_NULL == Txt(<<"N", "U", "L", "L">>)

\* a dict is [ty |-> "dict", v |-> <<>>, items |-> the (key, value) pairs in
\* order]
PyDict(items) == [ty |-> "dict", v |-> <<>>, items |-> items]

Items == Seq([k : PyValues, v : PyValues])

\* the loop over v.items(): [err, out], out the parts joined by ','
HStoreParts[items \in Items] ==
  IF items = <<>> THEN [err |-> FALSE, out |-> <<>>]
  ELSE LET k == Head(items).k
           v == Head(items).v
       IN IF k.ty # "str" \/ (v.ty # "none" /\ v.ty # "str")
          THEN [err |-> TRUE, out |-> <<>>]
          ELSE LET part == quote(text_escape_nested(k.v))
                             \o <<Chr("="), Chr(">")>>
                             \o (IF v.ty = "none" THEN SQL_NULL
                                 ELSE quote(text_escape_nested(v.v)))
                   rest == HStoreParts[Tail(items)]
               IN IF rest.err THEN rest
                  ELSE IF Len(items) = 1 THEN [err |-> FALSE, out |-> part]
                  ELSE [err |-> FALSE, out |-> part \o <<Chr(",")>> \o rest.out]

HStore(v, lz) ==
  IF v.ty = "dict"
  THEN IF HStoreParts[v.items].err THEN Raise(lz)
       ELSE Ret(PyStr(HStoreParts[v.items].out), lz)
  ELSE Raise(lz)

HStoreOrNone(v, lz) ==
  IF v.ty = "none" THEN Ret(NULL, lz)
  ELSE IF v.ty = "dict" THEN HStore(v, lz)
  ELSE Raise(lz)

\* a caller-supplied encoder (register_fieldclass, field_encoders): it
\* accepts every value and writes the one character C
Custom(v, lz) == Ret(PyStr(<<Chr("C")>>), lz)

\* enc(el, lazy) for the encoder named enc
Apply(enc, v, lz) ==
  CASE enc = "Int" -> Int_(v, lz)
    [] enc = "IntOrNone" -> IntOrNone(v, lz)
    [] enc = "Binary" -> Binary(v, lz)
    [] enc = "BinaryOrNone" -> BinaryOrNone(v, lz)
    [] enc = "Text" -> Text(v, lz)
    [] enc = "TextOrNone" -> TextOrNone(v, lz)
    [] enc = "Custom" -> Custom(v, lz)
    [] enc = "Boolean" -> Boolean(v, lz)
    [] enc = "BooleanOrNone" -> BooleanOrNone(v, lz)
    [] enc = "Date" -> Date(v, lz)
    [] enc = "DateOrNone" -> DateOrNone(v, lz)
    [] enc = "Datetime" -> Datetime(v, lz)
    [] enc = "DatetimeOrNone" -> DatetimeOrNone(v, lz)
    [] enc = "Numeric" -> Numeric(v, lz)
    [] enc = "NumericOrNone" -> NumericOrNone(v, lz)
    [] enc = "Duration" -> Duration(v, lz)
    [] enc = "DurationOrNone" -> DurationOrNone(v, lz)
    [] enc = "Float" -> Float(v, lz)
    [] enc = "FloatOrNone" -> FloatOrNone(v, lz)
    [] enc = "Json" -> Json(v, lz)
    [] enc = "JsonOrNone" -> JsonOrNone(v, lz)
    [] enc = "Time" -> Time(v, lz)
    [] enc = "TimeOrNone" -> TimeOrNone(v, lz)
    [] enc = "Uuid" -> Uuid(v, lz)
    [] enc = "UuidOrNone" -> UuidOrNone(v, lz)
    [] enc = "HStore" -> HStore(v, lz)
    [] enc = "HStoreOrNone" -> HStoreOrNone(v, lz)
    [] enc = "Range(int)" -> RangeOf("int", v, lz)
    [] enc = "RangeOrNone(int)" -> RangeOfOrNone("int", v, lz)
    [] enc = "Range(Decimal)" -> RangeOf("Decimal", v, lz)
    [] enc = "RangeOrNone(Decimal)" -> RangeOfOrNone("Decimal", v, lz)
    [] enc = "Range(datetime)" -> RangeOf("datetime", v, lz)
    [] enc = "RangeOrNone(datetime)" -> RangeOfOrNone("datetime", v, lz)
    [] enc = "Range(date)" -> RangeOf("date", v, lz)
    [] enc = "RangeOrNone(date)" -> RangeOfOrNone("date", v, lz)

(* ------------------------------------------------------------------ *)
(* Encoder registry and get_encoder                                    *)
(* ------------------------------------------------------------------ *)
\* the field classes of the model; MyCharField is a CharField subclass and
\* GeoField a Field subclass, neither registered by the module itself
Classes == {"AutoField", "IntegerField", "BinaryField", "CharField",
            "TextField", "MyCharField", "GeoField", "ForeignKey"}

\* type(field).__mro__, up to the classes the registry can hold
MRO(cls) ==
  CASE cls = "MyCharField" -> <<"MyCharField", "CharField">>
    [] OTHER -> <<cls>>

\* ENCODERS (the entries of the classes above); <<>> is "no entry"
ENCODERS ==
  [c \in Classes |->
     CASE c \in {"AutoField", "IntegerField"} -> <<"Int", "IntOrNone">>
       [] c = "BinaryField" -> <<"Binary", "BinaryOrNone">>
       [] c \in {"CharField", "TextField"} -> <<"Text", "TextOrNone">>
       [] OTHER -> <<>>]

\* ENCODERS[field_cls] = (encoder, encoder_none or encoder); encoder_none = ""
\* is the default None
register_fieldclass(reg, field_cls, encoder, encoder_none) ==
  [reg EXCEPT ![field_cls] =
     <<encoder, IF encoder_none = "" THEN encoder ELSE encoder_none>>]

\* for cls in type(field).__mro__: enc = ENCODERS.get(cls); if enc: ...
RECURSIVE MroLookup(_, _)
MroLookup(reg, mro) ==
  IF mro = <<>> THEN <<>>
  ELSE IF reg[Head(mro)] # <<>> THEN reg[Head(mro)]
  ELSE MroLookup(reg, Tail(mro))

\* enc[field.null]: False selects element 0, True element 1
PairAt(pair, null) == IF null THEN pair[2] ELSE pair[1]

\* A field is the chain <<field, field.target_field, ...>> of [cls, null]
\* descriptors; is_relation holds of every element but the last.
\* The result is the encoder's name, or "NotImplementedError".
\* a default encoder handed out where the lookup finds none
get_encoder_or_text(reg, field) ==
  LET enc == MroLookup(reg, MRO(field[Len(field)].cls))
  IN IF enc # <<>> THEN PairAt(enc, field[Len(field)].null) ELSE "Text"

RECURSIVE get_encoder(_, _)
get_encoder(reg, field) ==
  IF Len(field) > 1 THEN get_encoder(reg, Tail(field))
  ELSE LET enc == MroLookup(reg, MRO(field[1].cls))
       IN IF enc # <<>> THEN PairAt(enc, field[1].null)
          ELSE "NotImplementedError"

(* ------------------------------------------------------------------ *)
(* write_lazy and _lazy_binary: the f.write calls they make, in order  *)
(* ------------------------------------------------------------------ *)
LazySlicesOf[v \in Strings, byte_pos \in Int] ==
  IF byte_pos < BLen(v)
  THEN <<Hex(Slice(v, byte_pos, byte_pos + LAZY_SLICE))>>
         \o LazySlicesOf[v, byte_pos + LAZY_SLICE]
  ELSE <<>>

LazySlices(v, byte_pos) == LazySlicesOf[v, byte_pos]

_lazy_binary(v) ==
  IF BLen(v) <= LAZY_SLICE THEN <<Hex(v)>> ELSE LazySlices(v, 0)

\* [err, w]: err where data.index raises ValueError, w the writes made
WriteLazyFromOf[data \in Strings, stack \in Seq(Strings), idx \in Int] ==
  IF stack = <<>> THEN [err |-> FALSE, w |-> <<Drop(data, idx)>>]
  ELSE LET at == IndexFrom(data, idx, 0)
       IN IF at < 0 THEN [err |-> TRUE, w |-> <<>>]
          ELSE LET rest == WriteLazyFromOf[data, Tail(stack), at + 1]
               IN [err |-> rest.err,
                   w |-> <<Slice(data, idx, at)>> \o _lazy_binary(Head(stack))
                           \o rest.w]

WriteLazyFrom(data, stack, idx) == WriteLazyFromOf[data, stack, idx]

write_lazy(data, stack) == WriteLazyFrom(data, stack, 0)

(* ------------------------------------------------------------------ *)
(* The model class the calls are made on: qs.model._meta               *)
(* ------------------------------------------------------------------ *)
F(cls, null) == [cls |-> cls, null |-> null]

\* model._meta.get_field(name): chain is the field followed by its
\* target_field chain, local says whether it is in _meta.local_fields
get_field(name) ==
  CASE name = "id" ->
         [chain |-> <<F("AutoField", FALSE)>>, attname |-> "id", local |-> TRUE]
    [] name = "name" ->
         [chain |-> <<F("MyCharField", TRUE)>>, attname |-> "name", local |-> TRUE]
    [] name = "blob" ->
         [chain |-> <<F("BinaryField", TRUE)>>, attname |-> "blob", local |-> TRUE]
    [] name = "ref" ->
         [chain |-> <<F("ForeignKey", TRUE), F("AutoField", FALSE)>>,
          attname |-> "ref_id", local |-> TRUE]
    [] name = "geo" ->
         [chain |-> <<F("GeoField", FALSE)>>, attname |-> "geo", local |-> TRUE]
    [] name = "tag" ->
         [chain |-> <<F("CharField", FALSE)>>, attname |-> "tag", local |-> FALSE]

\* model._meta.pk
pk_field == "id"

(* ------------------------------------------------------------------ *)
(* Inputs                                                              *)
(* ------------------------------------------------------------------ *)
Obj(id, name, blob, ref_id) ==
  [id |-> id, name |-> name, blob |-> blob, ref_id |-> ref_id,
   geo |-> PyNone, tag |-> PyNone]

One == PyInt(<<Chr("1")>>)
Two == PyInt(<<Chr("2")>>)

\* the objects records are drawn from
ObjPool ==
  { \* a TAB b, no binary, no reference
    Obj(One, PyStr(<<Chr("a"), Chr("TAB"), Chr("b")>>), PyNone, PyNone),
    \* NULL text, a binary of exactly the inline limit
    Obj(Two, PyNone, PyBytes(<<Run("r", "b1", INLINE_MAX)>>), One),
    \* rows of exactly THRESHOLD and THRESHOLD + 1 bytes with name and blob
    Obj(One, PyStr(<<Run("s", "s1", THRESHOLD - 6)>>), PyNone, One),
    Obj(Two, PyStr(<<Run("s", "s2", THRESHOLD - 5)>>), PyNone, One),
    \* one row spanning several chunks
    Obj(One, PyStr(<<Run("s", "s3", 2 * CHUNK + 8928)>>), PyNone, One),
    \* a two-byte character, a binary one byte over the inline limit
    Obj(Two, PyStr(<<Chr("EACUTE")>>), PyBytes(<<Run("r", "b2", INLINE_MAX + 1)>>), One),
    \* a text holding U+0000, a binary longer than one lazy slice
    Obj(One, PyStr(<<Chr("a"), Chr("NUL")>>),
        PyBytes(<<Run("r", "b3", LAZY_SLICE + 4464)>>), One),
    \* an int where a str is expected
    Obj(Two, PyInt(<<Chr("7")>>), PyNone, One) }

RECURSIVE SeqsUpTo(_, _)
SeqsUpTo(S, n) ==
  IF n = 0 THEN {<<>>}
  ELSE LET shorter == SeqsUpTo(S, n - 1)
       IN shorter \cup {Append(sq, x) : sq \in {r \in shorter : Len(r) = n - 1}, x \in S}

Override(fname, encoder) == [fname |-> fname, encoder |-> encoder]

\* copy_update(qs, objs, fieldnames, field_encoders): the calls made
Calls ==
  { [fieldnames |-> <<"name", "blob">>, field_encoders |-> <<>>],
    [fieldnames |-> <<"name">>, field_encoders |-> <<>>],
    [fieldnames |-> <<"name", "blob">>, field_encoders |-> <<Override("name", "Custom")>>],
    [fieldnames |-> <<"name">>, field_encoders |-> <<Override("blob", "Custom")>>],
    [fieldnames |-> <<"name">>, field_encoders |-> <<Override("id", "Custom")>>],
    [fieldnames |-> <<"ref">>, field_encoders |-> <<>>],
    [fieldnames |-> <<"name", "geo">>, field_encoders |-> <<>>],
    [fieldnames |-> <<"tag">>, field_encoders |-> <<>>],
    [fieldnames |-> <<"name", "tag">>, field_encoders |-> <<>>] }

(* ------------------------------------------------------------------ *)
(* State                                                               *)
(* ------------------------------------------------------------------ *)
VARIABLES
  call,        \* the copy_update call: fieldnames, field_encoders
  objs,        \* its record sequence
  registry,    \* the global ENCODERS
  pc,          \* the producer's position in copy_update / copy_from
  cf,          \* the copy_from call: "idle", "active", "returned", "raised"
  err,         \* the error copy_update raised, "" for none
  attnames,    \* copy_update: attnames
  encs,        \* copy_update: encs
  i,           \* copy_from: records taken from data
  payload,     \* copy_from: payload
  lazy,        \* copy_from: lazy
  use_thread,  \* copy_from: use_thread
  wq,          \* the fw.write calls of the current step not yet completed
  pipe,        \* bytes in the channel
  wclosed,     \* fw.close() done
  rclosed,     \* fr.close() done
  helper,      \* thread t: "none", "running", "done", "failed"
  rbuf,        \* bytes the helper's current read(size) has collected
  sink,        \* bytes the bulk-load sink has consumed
  sinkCalls,   \* calls of the bulk-load sink's copy_from
  threads,     \* threads started
  db,          \* temp relation, UPDATE and fallback updater
  q            \* get_encoder applied to a field: the query and its result

vars == <<call, objs, registry, pc, cf, err, attnames, encs, i, payload, lazy,
          use_thread, wq, pipe, wclosed, rclosed, helper, rbuf, sink,
          sinkCalls, threads, db, q>>

inputVars == <<call, objs, registry, q>>
setupVars == <<attnames, encs>>
loopVars == <<i, payload, lazy>>
chanVars == <<pipe, wclosed, rclosed>>
helperVars == <<helper, rbuf, sink, sinkCalls, threads>>

NoQuery == [field |-> <<>>, enc |-> "", none |-> ""]

\* nothing called yet
Quiet ==
  /\ registry = ENCODERS
  /\ pc = "start" /\ cf = "idle" /\ err = ""
  /\ attnames = <<>> /\ encs = <<>>
  /\ i = 0 /\ payload = <<>> /\ lazy = <<>>
  /\ use_thread = FALSE /\ wq = <<>>
  /\ pipe = <<>> /\ wclosed = FALSE /\ rclosed = FALSE
  /\ helper = "none" /\ rbuf = <<>> /\ sink = <<>>
  /\ sinkCalls = 0 /\ threads = 0
  /\ db = [temp |-> "none", updated |-> FALSE, fallback |-> FALSE]

Idle == Quiet /\ q = NoQuery

Init ==
  /\ call \in Calls
  /\ objs \in SeqsUpTo(ObjPool, MaxRecords)
  /\ Idle

(* ------------------------------------------------------------------ *)
(* copy_from: one row                                                  *)
(* ------------------------------------------------------------------ *)
\* f'{x}' of an encoder's return value
Format(x) == x.v

\* str.encode('utf-8'): the one non-ASCII character of the inputs takes
\* two bytes, every other character one
EncodeOf[str \in Strings] ==
  IF str = <<>> THEN <<>>
  ELSE IF Head(str) = Chr("EACUTE")
       THEN <<Chr("xC3"), Chr("xA9")>> \o EncodeOf[Tail(str)]
       ELSE <<Head(str)>> \o EncodeOf[Tail(str)]

Encode(str) == EncodeOf[str]

\* attrgetter(*attnames)(o)
RECURSIVE get(_, _)
get(names, o) ==
  IF names = <<>> THEN <<>> ELSE <<o[Head(names)]>> \o get(Tail(names), o)

\* what an encoder call gives, and the comprehension so far
Returned == [err : BOOLEAN, out : PyValues, lazy : Seq(Strings)]
Collected == [err : BOOLEAN, parts : Seq(Strings), lazy : Seq(Strings)]

\* one step of the comprehension: the part enc(el, lazy) formats to is
\* appended; a raising encoder ends the comprehension, its list is lost
Collect[acc \in Collected, r \in Returned] ==
  IF r.err THEN [err |-> TRUE, parts |-> <<>>, lazy |-> r.lazy]
  ELSE [err |-> FALSE, parts |-> Append(acc.parts, Format(r.out)), lazy |-> r.lazy]

\* [f'{enc(el, lazy)}' for enc, el in zip(encs, get(o))]: [err, parts, lazy]
EncodeFieldsOf[es \in Seq(STRING), els \in Seq(PyValues), acc \in Collected] ==
  IF es = <<>> \/ els = <<>> \/ acc.err THEN acc
  ELSE EncodeFieldsOf[Tail(es), Tail(els),
                      Collect[acc, Apply(Head(es), Head(els), acc.lazy)]]

EncodeFields(es, els, lz) ==
  EncodeFieldsOf[es, els, [err |-> FALSE, parts |-> <<>>, lazy |-> lz]]

\* '\t'.join(parts)
JoinOf[parts \in Seq(Strings)] ==
  IF parts = <<>> THEN <<>>
  ELSE IF Len(parts) = 1 THEN parts[1]
  ELSE Cat(parts[1], <<Chr("TAB")>> \o JoinOf[Tail(parts)])

Join(parts) == JoinOf[parts]

\* the bytes one record adds to payload, and the lazy list after it
RowFrom[r \in Collected] ==
  [err |-> r.err,
   bytes |-> Cat(Encode(Join(r.parts)), <<Chr("NL")>>),
   lazy |-> r.lazy]

Row(es, names, o, lz) == RowFrom[EncodeFields(es, get(names, o), lz)]

\* the comparison off by one: a buffer of exactly 65535 bytes already streams
ExceedsOffByOne(p) == BLen(p) >= THRESHOLD

\* len(payload) > 65535
Exceeds(p) == BLen(p) > THRESHOLD

\* the fw.write(m[pos:pos+65536]) calls of the while loop
ChunksOf[p \in Strings, pos \in Int] ==
  IF BLen(p) - pos > THRESHOLD
  THEN <<Slice(p, pos, pos + CHUNK)>> \o ChunksOf[p, pos + CHUNK]
  ELSE <<>>

\* the buffer written in one piece
ChunksWhole(p, pos) == <<Drop(p, pos)>>

Chunks(p, pos) == ChunksOf[p, pos]

\* pos when the while loop ends
ChunkEndOf[p \in Strings, pos \in Int] ==
  IF BLen(p) - pos > THRESHOLD THEN ChunkEndOf[p, pos + CHUNK] ELSE pos

ChunkEnd(p, pos) == ChunkEndOf[p, pos]

\* a write of no bytes moves nothing and returns at once
NonEmpty(ws) == SelectSeq(ws, LAMBDA w : w # <<>>)

\* the read end closed before the join
TeardownCloseReadFirst == <<"close_w", "close_r", "join">>

\* the join before the write end is closed
TeardownJoinFirst == <<"join", "close_w", "close_r">>

\* fw.close(); t.join(); fr.close()
TeardownOrder == <<"close_w", "join", "close_r">>

\* the position after teardown step p
AfterStep(p) ==
  LET k == CHOOSE n \in 1..Len(TeardownOrder) : TeardownOrder[n] = p
  IN IF k < Len(TeardownOrder) THEN TeardownOrder[k + 1] ELSE "reconcile"

(* ------------------------------------------------------------------ *)
(* copy_update: setup                                                  *)
(* ------------------------------------------------------------------ *)
local_fieldnames(fieldnames) ==
  SelectSeq(fieldnames, LAMBDA n : get_field(n).local)

non_local_fieldnames(fieldnames) ==
  SelectSeq(fieldnames, LAMBDA n : ~get_field(n).local)

\* all_fields = [pk_field] + fields
all_fields(fieldnames) == <<pk_field>> \o local_fieldnames(fieldnames)

\* the encs and attnames columns of the zip(*[...]) over all_fields
ResolveAll(reg, fields) ==
  [k \in 1..Len(fields) |-> get_encoder(reg, get_field(fields[k]).chain)]

AttNames(fields) == [k \in 1..Len(fields) |-> get_field(fields[k]).attname]

InSeq(x, sq) == \E k \in 1..Len(sq) : sq[k] = x

\* for fname, encoder in field_encoders.items():
\*     if fname in attnames: encs[attnames.index(fname)] = encoder
\* encs is a tuple (zip(*...) yields tuples): the item assignment raises
\* TypeError
ApplyOverrides(es, names, field_encoders) ==
  IF \E k \in 1..Len(field_encoders) : InSeq(field_encoders[k].fname, names)
  THEN [err |-> TRUE, encs |-> es]
  ELSE [err |-> FALSE, encs |-> es]

Setup ==
  /\ pc = "start"
  /\ LET fieldnames == call.fieldnames
         fields == all_fields(fieldnames)
         es == ResolveAll(registry, fields)
         ov == ApplyOverrides(es, AttNames(fields), call.field_encoders)
     IN IF local_fieldnames(fieldnames) = <<>>
        THEN \* return qs.bulk_update(objs, non_local_fieldnames)
             /\ db' = [db EXCEPT !.fallback = TRUE]
             /\ pc' = "returned"
             /\ UNCHANGED <<err, attnames, encs>>
        ELSE IF InSeq("NotImplementedError", es)
        THEN /\ pc' = "raised" /\ err' = "NotImplementedError"
             /\ UNCHANGED <<db, attnames, encs>>
        ELSE IF ov.err
        THEN /\ pc' = "raised" /\ err' = "TypeError"
             /\ UNCHANGED <<db, attnames, encs>>
        ELSE /\ pc' = "tx"
             /\ attnames' = AttNames(fields)
             /\ encs' = ov.encs
             /\ UNCHANGED <<db, err>>
  /\ UNCHANGED <<inputVars, cf, loopVars, use_thread, wq, chanVars, helperVars>>

\* DROP TABLE IF EXISTS, CREATE TEMPORARY TABLE, then copy_from is entered
CreateTemp ==
  /\ pc = "tx"
  /\ db' = [db EXCEPT !.temp = "created"]
  /\ pc' = "loop" /\ cf' = "active"
  /\ i' = 0 /\ payload' = <<>> /\ lazy' = <<>> /\ use_thread' = FALSE
  /\ UNCHANGED <<inputVars, setupVars, err, wq, chanVars, helperVars>>

(* ------------------------------------------------------------------ *)
(* copy_from: the producer                                             *)
(* ------------------------------------------------------------------ *)
\* for o in data: payload += '\t'.join([...]).encode(encoding); payload += b'\n'
EncodeRecord ==
  /\ pc = "loop" /\ i < Len(objs)
  /\ \E r \in {Row(encs, attnames, objs[i + 1], lazy)} :
        IF r.err
        THEN /\ pc' = "raised" /\ cf' = "raised" /\ err' = "TypeError"
             /\ lazy' = r.lazy
             /\ UNCHANGED <<i, payload>>
        ELSE /\ pc' = "check"
             /\ i' = i + 1
             /\ payload' = Cat(payload, r.bytes)
             /\ lazy' = r.lazy
             /\ UNCHANGED <<cf, err>>
  /\ UNCHANGED <<inputVars, setupVars, use_thread, wq, chanVars, helperVars, db>>

\* a pipe and a thread made at every breach of the threshold
CheckThresholdNoReuse ==
  /\ pc = "check"
  /\ IF Exceeds(payload)
     THEN /\ use_thread' = TRUE
          /\ helper' = "running"
          /\ threads' = threads + 1
          /\ sinkCalls' = sinkCalls + 1
          /\ IF lazy # <<>>
             THEN LET wl == write_lazy(payload, lazy)
                  IN IF wl.err
                     THEN /\ pc' = "raised" /\ cf' = "raised" /\ err' = "ValueError"
                          /\ UNCHANGED <<wq, lazy, payload>>
                     ELSE /\ wq' = NonEmpty(wl.w)
                          /\ lazy' = <<>>
                          /\ payload' = <<>>
                          /\ pc' = IF wq' = <<>> THEN "loop" ELSE "write"
                          /\ UNCHANGED <<cf, err>>
             ELSE /\ wq' = Chunks(payload, 0)
                  /\ payload' = Drop(payload, ChunkEnd(payload, 0))
                  /\ pc' = IF wq' = <<>> THEN "loop" ELSE "write"
                  /\ UNCHANGED <<lazy, cf, err>>
     ELSE /\ pc' = "loop"
          /\ UNCHANGED <<use_thread, helper, threads, sinkCalls, wq, lazy,
                         payload, cf, err>>
  /\ UNCHANGED <<inputVars, setupVars, i, chanVars, rbuf, sink, db>>

\* if len(payload) > 65535: start the thread once, then write_lazy or the
\* full chunks; the writes themselves are completed by Write
CheckThreshold ==
  /\ pc = "check"
  /\ IF Exceeds(payload)
     THEN /\ use_thread' = TRUE
          /\ IF use_thread
             THEN UNCHANGED <<helper, threads, sinkCalls>>
             ELSE /\ helper' = "running"
                  /\ threads' = threads + 1
                  /\ sinkCalls' = sinkCalls + 1
          /\ IF lazy # <<>>
             THEN LET wl == write_lazy(payload, lazy)
                  IN IF wl.err
                     THEN /\ pc' = "raised" /\ cf' = "raised" /\ err' = "ValueError"
                          /\ UNCHANGED <<wq, lazy, payload>>
                     ELSE /\ wq' = NonEmpty(wl.w)
                          /\ lazy' = <<>>
                          /\ payload' = <<>>
                          /\ pc' = IF wq' = <<>> THEN "loop" ELSE "write"
                          /\ UNCHANGED <<cf, err>>
             ELSE /\ wq' = Chunks(payload, 0)
                  /\ payload' = Drop(payload, ChunkEnd(payload, 0))
                  /\ pc' = IF wq' = <<>> THEN "loop" ELSE "write"
                  /\ UNCHANGED <<lazy, cf, err>>
     ELSE /\ pc' = "loop"
          /\ UNCHANGED <<use_thread, helper, threads, sinkCalls, wq, lazy,
                         payload, cf, err>>
  /\ UNCHANGED <<inputVars, setupVars, i, chanVars, rbuf, sink, db>>

\* a blocked fw.write proceeds: as many bytes as the channel has room for
Write ==
  /\ pc \in {"write", "flush"}
  /\ wq # <<>>
  /\ BLen(pipe) < PipeCap
  /\ LET room == PipeCap - BLen(pipe)
         n == IF BLen(Head(wq)) < room THEN BLen(Head(wq)) ELSE room
     IN /\ pipe' = Cat(pipe, Take(Head(wq), n))
        /\ wq' = IF n = BLen(Head(wq)) THEN Tail(wq)
                 ELSE <<Drop(Head(wq), n)>> \o Tail(wq)
  /\ pc' = IF wq' # <<>> THEN pc
           ELSE IF pc = "write" THEN "loop" ELSE TeardownOrder[1]
  /\ UNCHANGED <<inputVars, setupVars, cf, err, loopVars, use_thread, wclosed,
                 rclosed, helperVars, db>>

\* the bytes the in-memory delivery hands to the sink
MemoryFile ==
  IF lazy # <<>> THEN CatAll(write_lazy(payload, lazy).w) ELSE payload

\* the in-memory delivery made after the streaming as well
EndOfDataBoth ==
  /\ pc = "loop" /\ i = Len(objs)
  /\ IF use_thread
     THEN /\ IF payload # <<>>
             THEN /\ wq' = NonEmpty(IF lazy # <<>> THEN write_lazy(payload, lazy).w
                                    ELSE <<payload>>)
                  /\ pc' = "flush"
             ELSE /\ pc' = TeardownOrder[1]
                  /\ UNCHANGED wq
          /\ sinkCalls' = sinkCalls + 1
          /\ UNCHANGED <<cf, sink>>
     ELSE /\ IF payload # <<>>
             THEN /\ sink' = MemoryFile
                  /\ sinkCalls' = sinkCalls + 1
             ELSE UNCHANGED <<sink, sinkCalls>>
          /\ pc' = "reconcile" /\ cf' = "returned"
          /\ UNCHANGED wq
  /\ UNCHANGED <<inputVars, setupVars, err, loopVars, use_thread, chanVars,
                 helper, rbuf, threads, db>>

\* after the loop: the last flush of the streaming path, or the in-memory
\* delivery c.copy_from(f, ...) when the sink accepts the payload
EndOfData ==
  /\ pc = "loop" /\ i = Len(objs)
  /\ IF use_thread
     THEN /\ IF payload # <<>>
             THEN /\ wq' = NonEmpty(IF lazy # <<>> THEN write_lazy(payload, lazy).w
                                    ELSE <<payload>>)
                  /\ pc' = "flush"
             ELSE /\ pc' = TeardownOrder[1]
                  /\ UNCHANGED wq
          /\ UNCHANGED <<cf, sink, sinkCalls>>
     ELSE /\ IF payload # <<>>
             THEN /\ sink' = MemoryFile
                  /\ sinkCalls' = sinkCalls + 1
             ELSE UNCHANGED <<sink, sinkCalls>>
          /\ pc' = "reconcile" /\ cf' = "returned"
          /\ UNCHANGED wq
  /\ UNCHANGED <<inputVars, setupVars, err, loopVars, use_thread, chanVars,
                 helper, rbuf, threads, db>>

\* the in-memory c.copy_from(f, ...) raises
MemorySinkFail ==
  /\ pc = "loop" /\ i = Len(objs)
  /\ ~use_thread /\ payload # <<>>
  /\ sinkCalls' = sinkCalls + 1
  /\ pc' = "raised" /\ cf' = "raised" /\ err' = "SinkError"
  /\ UNCHANGED <<inputVars, setupVars, loopVars, use_thread, wq, chanVars,
                 helper, rbuf, sink, threads, db>>

\* fw.close(), t.join(), fr.close(), in TeardownOrder
Teardown ==
  /\ InSeq(pc, TeardownOrder)
  /\ CASE pc = "close_w" -> /\ wclosed' = TRUE
                            /\ UNCHANGED rclosed
       [] pc = "join" -> /\ helper \in {"done", "failed"}
                         /\ UNCHANGED <<wclosed, rclosed>>
       [] pc = "close_r" -> /\ rclosed' = TRUE
                            /\ UNCHANGED wclosed
  /\ pc' = AfterStep(pc)
  /\ cf' = IF pc' = "reconcile" THEN "returned" ELSE cf
  /\ UNCHANGED <<inputVars, setupVars, err, loopVars, use_thread, wq, pipe,
                 helperVars, db>>

\* the reconciliation run as cleanup, after a raise as well
ReconcileAlways ==
  /\ pc \in {"reconcile", "raised"} /\ ~db.updated /\ db.temp = "created"
  /\ db' = [temp |-> "dropped", updated |-> TRUE,
            fallback |-> non_local_fieldnames(call.fieldnames) # <<>>]
  /\ pc' = IF pc = "raised" THEN pc ELSE "returned"
  /\ UNCHANGED <<inputVars, setupVars, cf, err, loopVars, use_thread, wq,
                 chanVars, helperVars>>

\* ANALYZE, UPDATE ... FROM, DROP TABLE, then the fallback updater
Reconcile ==
  /\ pc = "reconcile"
  /\ db' = [temp |-> "dropped", updated |-> TRUE,
            fallback |-> non_local_fieldnames(call.fieldnames) # <<>>]
  /\ pc' = "returned"
  /\ UNCHANGED <<inputVars, setupVars, cf, err, loopVars, use_thread, wq,
                 chanVars, helperVars>>

(* ------------------------------------------------------------------ *)
(* threaded_copy: the helper thread                                    *)
(* ------------------------------------------------------------------ *)
\* the sink's fr.read(size) collects what the channel holds
HelperRead ==
  /\ helper = "running" /\ ~rclosed
  /\ pipe # <<>> /\ BLen(rbuf) < READ_SIZE
  /\ LET need == READ_SIZE - BLen(rbuf)
         n == IF BLen(pipe) < need THEN BLen(pipe) ELSE need
     IN /\ rbuf' = Cat(rbuf, Take(pipe, n))
        /\ pipe' = Drop(pipe, n)
  /\ UNCHANGED <<inputVars, setupVars, pc, cf, err, loopVars, use_thread, wq,
                 wclosed, rclosed, helper, sink, sinkCalls, threads, db>>

\* read(size) returns, full or cut short by end-of-data, and the sink
\* consumes what it returned
HelperDeliver ==
  /\ helper = "running"
  /\ rbuf # <<>>
  /\ BLen(rbuf) = READ_SIZE \/ (wclosed /\ pipe = <<>>)
  /\ sink' = Cat(sink, rbuf)
  /\ rbuf' = <<>>
  /\ UNCHANGED <<inputVars, setupVars, pc, cf, err, loopVars, use_thread, wq,
                 chanVars, helper, sinkCalls, threads, db>>

\* read(size) returns b'': cur.copy_from returns and the thread ends
HelperEOF ==
  /\ helper = "running" /\ ~rclosed
  /\ wclosed /\ pipe = <<>> /\ rbuf = <<>>
  /\ helper' = "done"
  /\ UNCHANGED <<inputVars, setupVars, pc, cf, err, loopVars, use_thread, wq,
                 chanVars, rbuf, sink, sinkCalls, threads, db>>

\* cur.copy_from raises inside the thread: the thread ends with the
\* exception, which Thread.run does not hand to any other thread
HelperFail ==
  /\ helper = "running"
  /\ helper' = "failed"
  /\ UNCHANGED <<inputVars, setupVars, pc, cf, err, loopVars, use_thread, wq,
                 chanVars, rbuf, sink, sinkCalls, threads, db>>

(* ------------------------------------------------------------------ *)
(* Specifications                                                      *)
(* ------------------------------------------------------------------ *)
Next ==
  \/ Setup
  \/ CreateTemp
  \/ EncodeRecord
  \/ CheckThreshold
  \/ Write
  \/ EndOfData
  \/ MemorySinkFail
  \/ Teardown
  \/ Reconcile
  \/ HelperRead
  \/ HelperDeliver
  \/ HelperEOF
  \/ HelperFail

Spec == Init /\ [][Next]_vars

(* ------------------------------------------------------------------ *)
(* Reference streams the claims compare the sink with                  *)
(* ------------------------------------------------------------------ *)
\* one encoded field with its deferred-binary placeholder, if the encoder
\* made one, replaced by that value's hex digits
FieldWire(enc, v) ==
  LET r == Apply(enc, v, <<>>)
      out == Format(r.out)
  IN IF r.lazy # <<>>
     THEN Cat(SubSeq(out, 1, Len(out) - 1), Hex(r.lazy[1]))
     ELSE out

RECURSIVE FieldsWire(_, _)
FieldsWire(es, els) ==
  IF es = <<>> \/ els = <<>> THEN <<>>
  ELSE <<FieldWire(Head(es), Head(els))>> \o FieldsWire(Tail(es), Tail(els))

\* the concatenation, in record order, of each record's tab-joined encoded
\* fields followed by a newline
RECURSIVE ExpectedStream(_, _, _)
ExpectedStream(es, names, data) ==
  IF data = <<>> THEN <<>>
  ELSE Cat(Cat(Encode(Join(FieldsWire(es, get(names, Head(data))))), <<Chr("NL")>>),
           ExpectedStream(es, names, Tail(data)))

\* every record is accepted by the encoders
RECURSIVE WellTyped(_, _, _)
WellTyped(es, names, data) ==
  \/ data = <<>>
  \/ /\ ~EncodeFields(es, get(names, Head(data)), <<>>).err
     /\ WellTyped(es, names, Tail(data))

(* ------------------------------------------------------------------ *)
(* The streaming path with a sink that reads until end-of-data, under   *)
(* fair scheduling of the two threads                                  *)
(* ------------------------------------------------------------------ *)
Producer ==
  \/ Setup
  \/ CreateTemp
  \/ EncodeRecord
  \/ CheckThreshold
  \/ Write
  \/ EndOfData
  \/ Teardown
  \/ Reconcile

Helper ==
  \/ HelperRead
  \/ HelperDeliver
  \/ HelperEOF

NextLive == Producer \/ Helper

SpecLive ==
  Init /\ [][NextLive]_vars /\ WF_vars(Producer) /\ WF_vars(Helper)

(* ------------------------------------------------------------------ *)
(* The registry on its own: register_fieldclass and get_encoder        *)
(* ------------------------------------------------------------------ *)
\* longest field chain queried: a field, its target_field, ...
MaxChain == 2

\* classes of fields that are no relation
PlainClasses == Classes \ {"ForeignKey"}

RECURSIVE Chains(_)
Chains(n) ==
  IF n = 1 THEN {<<F(c, nl)>> : c \in PlainClasses, nl \in BOOLEAN}
  ELSE Chains(n - 1) \cup
       {<<F("ForeignKey", nl)>> \o ch :
          nl \in BOOLEAN, ch \in {x \in Chains(n - 1) : Len(x) = n - 1}}

\* what encoding None with the encoder named enc gives
OnNone(enc) ==
  IF enc = "NotImplementedError" THEN ""
  ELSE LET r == Apply(enc, PyNone, <<>>)
       IN IF r.err THEN "raise"
          ELSE IF r.out = NULL THEN "NULL"
          ELSE "other"

InitEnc ==
  /\ call = [fieldnames |-> <<>>, field_encoders |-> <<>>]
  /\ objs = <<>>
  /\ Idle

Register ==
  /\ \E cls \in {"GeoField", "MyCharField"}, enc \in {"Custom", "Text"},
        enc_none \in {"", "TextOrNone"} :
       registry' = register_fieldclass(registry, cls, enc, enc_none)
  /\ q' = NoQuery
  /\ UNCHANGED <<call, objs, pc, cf, err, setupVars, loopVars, use_thread, wq,
                 chanVars, helperVars, db>>

Resolve ==
  /\ \E field \in Chains(MaxChain) :
       LET enc == get_encoder(registry, field)
       IN q' = [field |-> field, enc |-> enc, none |-> OnNone(enc)]
  /\ UNCHANGED <<call, objs, registry, pc, cf, err, setupVars, loopVars,
                 use_thread, wq, chanVars, helperVars, db>>

NextEnc == Register \/ Resolve

SpecEnc == InitEnc /\ [][NextEnc]_vars

(* ------------------------------------------------------------------ *)
(* create_columns on its own: SQL text as sequences of characters      *)
(* ------------------------------------------------------------------ *)
\* most columns of one column_def
MaxCols == 3

Texts == Seq(STRING)

\* str.replace(pat, to): leftmost occurrences, not overlapping
ReplaceAllOf[s \in Texts, pat \in Texts, to \in Texts] ==
  IF Len(s) < Len(pat) THEN s
  ELSE IF SubSeq(s, 1, Len(pat)) = pat
       THEN to \o ReplaceAllOf[SubSeq(s, Len(pat) + 1, Len(s)), pat, to]
       ELSE <<Head(s)>> \o ReplaceAllOf[Tail(s), pat, to]

ReplaceAll(s, pat, to) == ReplaceAllOf[s, pat, to]

\* one (k, v) of column_def
ColumnPairs == [k : Texts, v : Texts]

\* ",".join(f'{k} {v}' for k, v in column_def)
JoinColumnsOf[column_def \in Seq(ColumnPairs)] ==
  IF column_def = <<>> THEN <<>>
  ELSE LET kv == Head(column_def).k \o <<" ">> \o Head(column_def).v
       IN IF Len(column_def) = 1 THEN kv
          ELSE kv \o <<",">> \o JoinColumnsOf[Tail(column_def)]

JoinColumns(column_def) == JoinColumnsOf[column_def]

T_serial == <<"s", "e", "r", "i", "a", "l">>
T_bigserial == <<"b", "i", "g">> \o T_serial
T_smallserial == <<"s", "m", "a", "l", "l">> \o T_serial
T_integer == <<"i", "n", "t", "e", "g", "e", "r">>
T_bigint == <<"b", "i", "g", "i", "n", "t">>
T_smallint == <<"s", "m", "a", "l", "l", "i", "n", "t">>
T_text == <<"t", "e", "x", "t">>

create_columns(column_def) ==
  ReplaceAll(ReplaceAll(ReplaceAll(JoinColumns(column_def),
    T_bigserial, T_bigint),
    T_smallserial, T_smallint),
    T_serial, T_integer)

\* f.column of the fields of a model
ColumnNames ==
  { <<"i", "d">>, <<"n", "a", "m", "e">>, T_serial \o <<"_", "n", "o">> }

\* f.db_type(conn) of the fields of a model
DbTypes == {T_serial, T_bigserial, T_smallserial, T_integer, T_text}

\* (f.column, f.db_type(conn)) for f in all_fields: the primary key and at
\* least one more field, no column twice
ColumnDefs ==
  { cd \in SeqsUpTo([k : ColumnNames, v : DbTypes], MaxCols) :
      /\ Len(cd) >= 2
      /\ \A m, n \in 1..Len(cd) : m # n => cd[m].k # cd[n].k }

\* colnames of the same zip: what copy_from passes on as columns
ColNames(column_def) == [n \in 1..Len(column_def) |-> column_def[n].k]

\* CREATE TEMPORARY TABLE "temp" (create_columns(column_def))
CreateColumns ==
  /\ \E cd \in ColumnDefs :
       q' = [column_def |-> cd, colnames |-> ColNames(cd),
             sql |-> create_columns(cd)]
  /\ UNCHANGED <<call, objs, registry, pc, cf, err, setupVars, loopVars,
                 use_thread, wq, chanVars, helperVars, db>>

NextCols == CreateColumns

SpecCols == InitEnc /\ [][NextCols]_vars

(* ------------------------------------------------------------------ *)
(* The scalar encoders on their own: one encoder applied to one value   *)
(* ------------------------------------------------------------------ *)
\* longest text escaped
MaxText == 3

\* backslash, the six control characters and ordinary characters, among
\* them the letters the escapes are written with
TextAlphabet == {"BSL", "BS", "FF", "NL", "CR", "TAB", "VT", "a", "n", "t"}

TextInputs == SeqsUpTo({Chr(c) : c \in TextAlphabet}, MaxText)

NoCall == [fieldnames |-> <<>>, field_encoders |-> <<>>]

InitText ==
  /\ call = NoCall /\ objs = <<>> /\ Quiet
  /\ q \in {[input |-> v, escaped |-> <<>>, done |-> FALSE] : v \in TextInputs}

\* text_escape(v)
Escape ==
  /\ ~q.done
  /\ q' = [q EXCEPT !.escaped = text_escape(q.input), !.done = TRUE]
  /\ UNCHANGED <<call, objs, registry, pc, cf, err, setupVars, loopVars,
                 use_thread, wq, chanVars, helperVars, db>>

NextText == Escape

SpecText == InitText /\ [][NextText]_vars

(* ------------------------------------------------------------------ *)
(* The built-in encoder table: one encoder applied to one value        *)
(* ------------------------------------------------------------------ *)
\* the keys of the ENCODERS dict
BuiltinClasses ==
  {"AutoField", "BigAutoField", "BigIntegerField", "BinaryField",
   "BooleanField", "CharField", "DateField", "DateTimeField", "DecimalField",
   "DurationField", "EmailField", "FloatField", "GenericIPAddressField",
   "IntegerField", "JSONField", "PositiveBigIntegerField",
   "PositiveIntegerField", "PositiveSmallIntegerField", "SlugField",
   "SmallAutoField", "SmallIntegerField", "TextField", "TimeField", "URLField",
   "UUIDField", "HStoreField", "IntegerRangeField", "BigIntegerRangeField",
   "DecimalRangeField", "DateTimeRangeField", "DateRangeField"}

\* the ENCODERS dict in full: <<encoder, encoder_none>> of every key
BuiltinPairs ==
  [c \in BuiltinClasses |->
     CASE c = "BinaryField" -> <<"Binary", "BinaryOrNone">>
       [] c = "BooleanField" -> <<"Boolean", "BooleanOrNone">>
       [] c \in {"CharField", "EmailField", "GenericIPAddressField",
                 "SlugField", "TextField", "URLField"} ->
            <<"Text", "TextOrNone">>
       [] c = "DateField" -> <<"Date", "DateOrNone">>
       [] c = "DateTimeField" -> <<"Datetime", "DatetimeOrNone">>
       [] c = "DecimalField" -> <<"Numeric", "NumericOrNone">>
       [] c = "DurationField" -> <<"Duration", "DurationOrNone">>
       [] c = "FloatField" -> <<"Float", "FloatOrNone">>
       [] c = "JSONField" -> <<"Json", "JsonOrNone">>
       [] c = "TimeField" -> <<"Time", "TimeOrNone">>
       [] c = "UUIDField" -> <<"Uuid", "UuidOrNone">>
       [] c = "HStoreField" -> <<"HStore", "HStoreOrNone">>
       [] c \in {"IntegerRangeField", "BigIntegerRangeField"} ->
            <<"Range(int)", "RangeOrNone(int)">>
       [] c = "DecimalRangeField" -> <<"Range(Decimal)", "RangeOrNone(Decimal)">>
       [] c = "DateTimeRangeField" ->
            <<"Range(datetime)", "RangeOrNone(datetime)">>
       [] c = "DateRangeField" -> <<"Range(date)", "RangeOrNone(date)">>
       [] OTHER -> <<"Int", "IntOrNone">>]

\* one value of every Python type the encoders test for
SampleValues ==
  {PyNone, PyInt(Txt(<<"7">>)), PyStr(Txt(<<"a">>)), PyBytes(Txt(<<"a">>)),
   PyDict(<<>>)}
  \cup {[ty |-> t, v |-> Txt(<<"T", "r", "u", "e">>)] : t \in {"bool"}}
  \cup {[ty |-> t, v |-> Txt(<<"1">>)] :
          t \in {"float", "date", "datetime", "Decimal", "timedelta", "time",
                 "UUID", "Range:int", "Range:Decimal", "Range:datetime",
                 "Range:date", "Range:none"}}

NotApplied == [err |-> FALSE, out |-> PyNone, lazy |-> <<>>]

InitPair ==
  /\ call = NoCall /\ objs = <<>> /\ Quiet
  /\ q \in {[cls |-> c, null |-> n, value |-> v, done |-> FALSE,
             result |-> NotApplied] :
              c \in BuiltinClasses, n \in BOOLEAN, v \in SampleValues}

\* ENCODERS[cls][null](value, [])
ApplyBuiltin ==
  /\ ~q.done
  /\ q' = [q EXCEPT !.result = Apply(PairAt(BuiltinPairs[q.cls], q.null),
                                     q.value, <<>>),
                    !.done = TRUE]
  /\ UNCHANGED <<call, objs, registry, pc, cf, err, setupVars, loopVars,
                 use_thread, wq, chanVars, helperVars, db>>

NextPair == ApplyBuiltin

SpecPair == InitPair /\ [][NextPair]_vars

(* ------------------------------------------------------------------ *)
(* HStore(v, lazy) applied to one dict                                 *)
(* ------------------------------------------------------------------ *)
MaxPairs == 2

\* keys: the empty text, a quote, a backslash, a letter, and a key that is
\* no str
HKeys ==
  {PyStr(<<>>), PyStr(<<Chr("QUOTE")>>), PyStr(<<Chr("BSL")>>),
   PyStr(<<Chr("a")>>), PyInt(Txt(<<"7">>))}

\* values: texts of quote, backslash and newline, the text NULL, None and a
\* value that is neither
HValues ==
  {PyStr(<<>>), PyStr(<<Chr("QUOTE")>>), PyStr(<<Chr("BSL")>>),
   PyStr(<<Chr("NL")>>), PyStr(<<Chr("BSL"), Chr("QUOTE")>>),
   PyStr(<<Chr("QUOTE"), Chr("BSL")>>), PyStr(SQL_NULL), PyNone,
   PyInt(Txt(<<"7">>))}

\* a dict holds a key once
HDicts ==
  {its \in SeqsUpTo([k : HKeys, v : HValues], MaxPairs) :
     \A m, n \in 1..Len(its) : its[m].k = its[n].k => m = n}

InitHStore ==
  /\ call = NoCall /\ objs = <<>> /\ Quiet
  /\ q \in {[items |-> its, done |-> FALSE, result |-> NotApplied] :
              its \in HDicts}

\* HStore(v, [])
ApplyHStore ==
  /\ ~q.done
  /\ q' = [q EXCEPT !.result = HStore(PyDict(q.items), <<>>), !.done = TRUE]
  /\ UNCHANGED <<call, objs, registry, pc, cf, err, setupVars, loopVars,
                 use_thread, wq, chanVars, helperVars, db>>

NextHStore == ApplyHStore

SpecHStore == InitHStore /\ [][NextHStore]_vars

(* ------------------------------------------------------------------ *)
(* Claims                                                              *)
(* ------------------------------------------------------------------ *)
\* states in which the producer is about to call write_lazy(f, payload, lazy)
AtWriteLazy ==
  /\ lazy # <<>>
  /\ \/ pc = "check" /\ Exceeds(payload)
     \/ pc = "loop" /\ i = Len(objs) /\ payload # <<>>

\* the producer is blocked in fw.write for good: the channel is full and
\* the thread that read it has ended
BlockedForever ==
  /\ pc \in {"write", "flush"}
  /\ helper = "failed"
  /\ BLen(pipe) = PipeCap

\* C1: once copy_from has returned (the sink never having failed), the bytes
\* the sink consumed are exactly the records' rows in record order, each the
\* tab-joined encoded fields and a newline, every placeholder replaced by
\* its value's hex digits, in memory and through the pipe alike.
C1_SinkGetsEncodedRows ==
  (cf = "returned" /\ helper # "failed")
    => sink = ExpectedStream(encs, attnames, objs)

\* C2 (as claimed): close-write, helper-finished and close-read occur in
\* exactly this order, so the helper never ends before the write end is closed.
C2_HelperEndsAfterCloseWrite ==
  /\ pc = "join" => wclosed
  /\ rclosed => helper \in {"done", "failed"}
  /\ helper \in {"done", "failed"} => wclosed

\* C2 (amended): the write end is closed before the producer starts waiting
\* for the helper; the read end is closed only after the write end is closed
\* and the helper has ended; a helper whose bulk-load call returns normally
\* ends only after the write end is closed.
C2_ShutdownOrder ==
  /\ pc = "join" => wclosed
  /\ rclosed => (wclosed /\ helper \in {"done", "failed"})
  /\ helper = "done" => wclosed

\* C2 witness: a helper was started and the read end has been closed
C2_Witness == threads = 1 /\ helper = "done" /\ rclosed

\* C3: whenever copy_from ends, by returning or by raising, after having
\* started a helper, the write end is closed, the helper has ended and the
\* read end is closed.
C3_TornDownOnEveryExit ==
  (cf \in {"returned", "raised"} /\ threads > 0)
    => (wclosed /\ helper \in {"done", "failed"} /\ rclosed)

\* C4: after the helper's bulk-load call has failed, copy_from does not
\* return normally and the producer is not left blocked on a write to a
\* channel nobody reads.
C4_HelperFailureRaised ==
  helper = "failed" => (cf # "returned" /\ ~BlockedForever)

\* the size of the row buffer had nothing been flushed: every deferred
\* binary value counts as its one placeholder byte
RECURSIVE BufferedSize(_, _, _)
BufferedSize(es, names, data) ==
  IF data = <<>> THEN 0
  ELSE BLen(Row(es, names, Head(data), <<>>).bytes)
         + BufferedSize(es, names, Tail(data))

\* C5 (as claimed): a helper is spawned if and only if the number of bytes
\* the batch delivers to the sink exceeds 65535.
C5_HelperIffDeliveredSize ==
  cf = "returned"
    => (use_thread <=> BLen(ExpectedStream(encs, attnames, objs)) > THRESHOLD)

\* C5 (amended): between records and at return, a helper has been spawned if
\* and only if the rows buffered so far, each deferred binary value counted
\* as its one placeholder byte, exceed 65535 bytes; exactly 65535 buffered
\* bytes are delivered in memory.
C5_HelperIffBufferedSize ==
  (pc = "loop" \/ cf = "returned")
    => (use_thread <=>
          BufferedSize(encs, attnames, SubSeq(objs, 1, i)) > THRESHOLD)

\* C5 witness: a batch of exactly 65535 bytes was delivered in memory
C5_Witness ==
  cf = "returned" /\ ~use_thread /\ sinkCalls = 1 /\ BLen(sink) = THRESHOLD

\* C6: at every call of write_lazy the row buffer holds exactly one 0x00
\* byte per pending lazy entry; nothing but a deferred binary puts a 0x00
\* byte into the buffer.
C6_OnePlaceholderPerLazyEntry ==
  AtWriteLazy => CountByte(payload, "NUL") = Len(lazy)

\* the encoders with every binary value hex-encoded inline
ApplyInline(enc, v) ==
  IF enc \in {"Binary", "BinaryOrNone"} /\ v.ty = "bytes"
  THEN Cat(BinaryPrefix, Hex(v.v))
  ELSE Format(Apply(enc, v, <<>>).out)

RECURSIVE InlineFields(_, _)
InlineFields(es, els) ==
  IF es = <<>> \/ els = <<>> THEN <<>>
  ELSE <<ApplyInline(Head(es), Head(els))>> \o InlineFields(Tail(es), Tail(els))

RECURSIVE InlineStream(_, _, _)
InlineStream(es, names, data) ==
  IF data = <<>> THEN <<>>
  ELSE Cat(Cat(Encode(Join(InlineFields(es, get(names, Head(data))))), <<Chr("NL")>>),
           InlineStream(es, names, Tail(data)))

\* a binary value of at most 4096 bytes is encoded inline and adds no lazy
\* entry; a longer one adds one lazy entry and one placeholder
BinaryDefersAbove4096 ==
  \A k \in 1..Len(objs) :
    LET v == objs[k].blob
        r == BinaryOrNone(v, <<>>)
    IN v.ty = "bytes" =>
         IF BLen(v.v) <= INLINE_MAX
         THEN r.lazy = <<>> /\ CountByte(r.out.v, "NUL") = 0
         ELSE r.lazy = <<v.v>> /\ CountByte(r.out.v, "NUL") = 1

\* C7: binary values defer exactly above 4096 bytes, and what the sink has
\* consumed when copy_from returns is byte for byte what it would have
\* consumed had every binary value been hex-encoded inline.
C7_DeferredEqualsInline ==
  /\ BinaryDefersAbove4096
  /\ (cf = "returned" /\ helper # "failed")
       => sink = InlineStream(encs, attnames, objs)

\* C8: with a sink that reads until end-of-data, every copy_from call on
\* well-typed records returns.
C8_Terminates ==
  (cf = "active" /\ WellTyped(encs, attnames, objs)) ~> (cf = "returned")

\* C8 witness: a streaming call returned after its helper saw end-of-data
C8_Witness ==
  cf = "returned" /\ threads = 1 /\ helper = "done" /\ wclosed /\ rclosed

\* field.target_field ... of a chain: the field an encoder pair is looked up for
TargetOf(field) == field[Len(field)]

\* C9: get_encoder returns the strict encoder of the pair registered for the
\* field's (target's) type when the field itself has null=False and the
\* nullable one when it has null=True; None of a nullable relation to a
\* non-nullable key encodes as the NULL token.
C9_EncoderFollowsFieldNull ==
  (q.field # <<>> /\ q.enc # "NotImplementedError")
    => /\ q.enc = PairAt(MroLookup(registry, MRO(TargetOf(q.field).cls)),
                         q.field[1].null)
       /\ (/\ Len(q.field) > 1
           /\ q.field[1].null
           /\ TargetOf(q.field).cls = "AutoField") => q.none = "NULL"

\* the entries of field_encoders keyed by a field that is written
WrittenOverrides ==
  {k \in 1..Len(call.field_encoders) :
     InSeq(call.field_encoders[k].fname, AttNames(all_fields(call.fieldnames)))}

\* C10: with a field_encoders entry keyed by a written field or the primary
\* key the operation proceeds and that field is encoded with the supplied
\* encoder; other entries change nothing.
C10_OverrideUsed ==
  (pc # "start" /\ local_fieldnames(call.fieldnames) # <<>>
     /\ ~InSeq("NotImplementedError",
               ResolveAll(registry, all_fields(call.fieldnames))))
    => /\ ~(pc = "raised" /\ cf = "idle")
       /\ \A k \in 1..Len(encs) :
            encs[k] =
              IF \E n \in WrittenOverrides :
                   call.field_encoders[n].fname = attnames[k]
              THEN (CHOOSE e \in {call.field_encoders[n].encoder :
                                    n \in {m \in WrittenOverrides :
                                             call.field_encoders[m].fname = attnames[k]}} : TRUE)
              ELSE ResolveAll(registry, all_fields(call.fieldnames))[k]

\* C11: once an encoder has raised its type error inside copy_from,
\* copy_update has ended with that error and neither the UPDATE nor the
\* fallback updater is ever executed, whatever the helper has consumed; the
\* UPDATE is executed only when the encoders accepted every record.
C11_NoUpdateAfterTypeError ==
  /\ (cf = "raised" /\ err = "TypeError")
       => (pc = "raised" /\ ~db.updated /\ ~db.fallback)
  /\ db.updated => WellTyped(encs, attnames, objs)

\* C11 witness: the type error came after a running helper had consumed rows
C11_Witness ==
  /\ cf = "raised" /\ err = "TypeError"
  /\ threads = 1 /\ sink # <<>> /\ i > 0

\* a written field (or the primary key) whose class ancestry has no entry in
\* the registry
Unregistered ==
  /\ local_fieldnames(call.fieldnames) # <<>>
  /\ \E k \in 1..Len(all_fields(call.fieldnames)) :
       MroLookup(registry,
                 MRO(TargetOf(get_field(all_fields(call.fieldnames)[k]).chain).cls)) = <<>>

Stripped(v) ==
  CASE v = T_bigserial -> T_bigint
    [] v = T_smallserial -> T_smallint
    [] v = T_serial -> T_integer
    [] OTHER -> v

\* the column definition the claim describes: the names passed to the sink,
\* in order, each followed by its stripped type
ExpectedColumns(colnames, column_def) ==
  JoinColumns([n \in 1..Len(column_def) |->
                 [k |-> colnames[n], v |-> Stripped(column_def[n].v)]])

\* C13: the temp relation's column definition lists the column names passed
\* to the sink, in order and unaltered, each with its storage type unchanged
\* but for bigserial, smallserial and serial.
C13_ColumnsKeepNames ==
  q # NoQuery => q.sql = ExpectedColumns(q.colnames, q.column_def)

\* the character a two-character escape of the wire grammar stands for
Escaped(c) ==
  CASE c = Chr("b") -> Chr("BS")
    [] c = Chr("f") -> Chr("FF")
    [] c = Chr("n") -> Chr("NL")
    [] c = Chr("r") -> Chr("CR")
    [] c = Chr("t") -> Chr("TAB")
    [] c = Chr("v") -> Chr("VT")
    [] OTHER -> c

\* un-escaping by the wire grammar, left to right
UnescapeOf[s \in Strings] ==
  IF s = <<>> THEN <<>>
  ELSE IF Head(s) = Chr("BSL") /\ Len(s) > 1
       THEN <<Escaped(s[2])>> \o UnescapeOf[SubSeq(s, 3, Len(s))]
       ELSE <<Head(s)>> \o UnescapeOf[Tail(s)]

ControlChars == {"BS", "FF", "NL", "CR", "TAB", "VT"}

RECURSIVE CountIn(_, _)
CountIn(s, cs) ==
  IF s = <<>> THEN 0
  ELSE (IF \E c \in cs : Head(s) = Chr(c) THEN 1 ELSE 0) + CountIn(Tail(s), cs)

\* C14: the escaped text holds none of the six raw control characters,
\* un-escaping it recovers the input, and it holds two backslashes per input
\* backslash and one per control character: no escape is escaped again.
C14_EscapeRoundTrip ==
  q.done
    => /\ CountIn(q.escaped, ControlChars) = 0
       /\ UnescapeOf[q.escaped] = q.input
       /\ CountIn(q.escaped, {"BSL"})
            = 2 * CountIn(q.input, {"BSL"}) + CountIn(q.input, ControlChars)

\* C14 witness: a backslash before the letter n, then a raw newline
C14_Witness ==
  q.done /\ q.input = <<Chr("BSL"), Chr("n"), Chr("NL")>>

\* C15: of every pair of the built-in table the nullable encoder maps None to
\* the NULL token '\N' and the strict encoder raises on None, except Json,
\* whose strict encoder returns the JSON literal null for None
C15_NoneHandling ==
  (q.done /\ q.value = PyNone) =>
    IF q.null
    THEN ~q.result.err /\ q.result.out = PyStr(<<Chr("BSL"), Chr("N")>>)
    ELSE IF q.cls = "JSONField"
    THEN ~q.result.err
         /\ q.result.out = PyStr(<<Chr("n"), Chr("u"), Chr("l"), Chr("l")>>)
    ELSE q.result.err

C15_Witness ==
  /\ q.done /\ q.value = PyNone /\ ~q.null /\ q.cls = "JSONField"
  /\ ~q.result.err

\* what one character of a key or value is to become
NestedChar(c) ==
  CASE c = Chr("QUOTE") -> <<Chr("BSL"), Chr("BSL"), Chr("QUOTE")>>
    [] c = Chr("BSL") -> <<Chr("BSL"), Chr("BSL"), Chr("BSL"), Chr("BSL")>>
    [] c = Chr("NL") -> <<Chr("BSL"), Chr("n")>>
    [] OTHER -> <<c>>

NestedOf[s \in Strings] ==
  IF s = <<>> THEN <<>> ELSE NestedChar(Head(s)) \o NestedOf[Tail(s)]

Quoted(s) == <<Chr("QUOTE")>> \o NestedOf[s] \o <<Chr("QUOTE")>>

Bareword == <<Chr("N"), Chr("U"), Chr("L"), Chr("L")>>

ExpectedPair(it) ==
  Quoted(it.k.v) \o <<Chr("="), Chr(">")>>
    \o (IF it.v = PyNone THEN Bareword ELSE Quoted(it.v.v))

ExpectedHStoreOf[its \in Items] ==
  IF its = <<>> THEN <<>>
  ELSE IF Len(its) = 1 THEN ExpectedPair(its[1])
  ELSE ExpectedPair(its[1]) \o <<Chr(",")>> \o ExpectedHStoreOf[Tail(its)]

HWellTyped(its) ==
  \A n \in 1..Len(its) :
    its[n].k.ty = "str" /\ its[n].v.ty \in {"str", "none"}

RECURSIVE CountItems(_, _)
CountItems(its, c) ==
  IF its = <<>> THEN 0
  ELSE CountByte(Head(its).k.v, c) + CountByte(Head(its).v.v, c)
         + CountItems(Tail(its), c)

\* C16: HStore of a dict with str keys and str-or-None values is the pairs
\* "key"=>value joined by commas, each quote of the input written backslash,
\* backslash, quote and each backslash as four backslashes (so the output
\* holds four backslashes per input backslash, two per quote and one per
\* newline), a None value written as the bareword NULL, which is not the
\* token '\N' and not what any str value of the same key is written as.
C16_HStoreEncoding ==
  (q.done /\ HWellTyped(q.items)) =>
    /\ ~q.result.err
    /\ q.result.out = PyStr(ExpectedHStoreOf[q.items])
    /\ CountByte(q.result.out.v, "BSL")
         = 4 * CountItems(q.items, "BSL") + 2 * CountItems(q.items, "QUOTE")
             + CountItems(q.items, "NL")
    /\ (Len(q.items) = 1 /\ q.items[1].v = PyNone) =>
         /\ q.result.out.v
              = Quoted(q.items[1].k.v) \o <<Chr("="), Chr(">")>> \o Bareword
         /\ Bareword # NULL.v
         /\ \A sv \in {x \in HValues : x.ty = "str"} :
              HStore(PyDict(<<[k |-> q.items[1].k, v |-> sv]>>), <<>>).out
                # q.result.out

C16_Witness ==
  /\ q.done /\ Len(q.items) = 2 /\ HWellTyped(q.items)
  /\ q.items[1].k = PyStr(<<Chr("QUOTE")>>)
  /\ q.items[1].v = PyStr(<<Chr("BSL"), Chr("QUOTE")>>)
  /\ q.items[2].v = PyNone
  /\ ~q.result.err

\* copy_update(qs, [{id: 1, name: 'a\tb'}, {id: 2, name: None}], ['name'])
TwoRecords ==
  /\ call = [fieldnames |-> <<"name">>, field_encoders |-> <<>>]
  /\ Len(objs) = 2
  /\ objs[1].id = One /\ objs[1].name = PyStr(<<Chr("a"), Chr("TAB"), Chr("b")>>)
  /\ objs[2].id = Two /\ objs[2].name = PyNone

\* the stream of the two rows without their key column
C17_TwoRowsOfNameOnly ==
  (TwoRecords /\ cf = "returned") =>
    sink = <<Chr("a"), Chr("BSL"), Chr("t"), Chr("b"), Chr("NL"),
             Chr("BSL"), Chr("N"), Chr("NL")>>

\* C17: for the records [{id: 1, name: a TAB b}, {id: 2, name: None}] and
\* the field list [name] the sink is called once and consumes exactly two
\* newline-terminated rows, each the record's id, a tab and the encoded
\* name: 1, TAB, a, backslash, t, b and 2, TAB, backslash, N.
C17_TwoRowsWithKey ==
  (TwoRecords /\ cf = "returned") =>
    /\ sinkCalls = 1
    /\ sink = <<Chr("1"), Chr("TAB"), Chr("a"), Chr("BSL"), Chr("t"), Chr("b"),
                Chr("NL"),
                Chr("2"), Chr("TAB"), Chr("BSL"), Chr("N"), Chr("NL")>>

C17_Witness == TwoRecords /\ cf = "returned" /\ sinkCalls = 1 /\ db.updated

\* C18: a copy_from call makes at most one pipe and helper thread (the pipe,
\* its two file objects and the thread are made by one statement block): the
\* first breach of the threshold makes them, and a step taken with
\* use_thread set makes none.
C18_OneSession ==
  /\ [](threads <= 1 /\ (use_thread <=> threads = 1))
  /\ [][use_thread => threads' = threads]_vars

\* a second breach of the threshold has reused the session of the first
C18_Witness ==
  /\ Len(objs) = 2 /\ i = 2 /\ pc = "write" /\ threads = 1
  /\ Exceeds(Row(encs, attnames, objs[1], <<>>).bytes)
  /\ Exceeds(Row(encs, attnames, objs[2], <<>>).bytes)

\* data with its placeholder bytes, in order, replaced by the hex digits of
\* the entries of stack, in order
SubstOf[data \in Strings, stack \in Seq(Strings)] ==
  IF data = <<>> THEN <<>>
  ELSE IF Head(data) = Chr("NUL") /\ stack # <<>>
       THEN Cat(Hex(Head(stack)), SubstOf[Tail(data), Tail(stack)])
       ELSE Cat(<<Head(data)>>, SubstOf[Tail(data), stack])

\* C19: in the streaming path the buffer holds at most 65535 bytes after
\* each record; with no lazy entries the writes of the record loop are of
\* exactly 65536 bytes each and, followed by the carried remainder, make up
\* the buffer; with lazy entries the whole buffer is written with each
\* placeholder replaced, and the buffer and the lazy list are emptied.
C19_BufferAfterRecord ==
  [][(pc = "check" /\ pc' # "check" /\ use_thread') =>
       /\ BLen(payload') <= THRESHOLD
       /\ (Exceeds(payload) /\ lazy = <<>>) =>
            /\ \A n \in 1..Len(wq') : BLen(wq'[n]) = CHUNK
            /\ Cat(CatAll(wq'), payload') = payload
       /\ (Exceeds(payload) /\ lazy # <<>>) =>
            /\ CatAll(wq') = SubstOf[payload, lazy]
            /\ payload' = <<>>
            /\ lazy' = <<>>]_vars

\* one row written as two chunks, its remainder carried forward
C19_Witness ==
  /\ pc = "write" /\ i = 1 /\ lazy = <<>> /\ Len(wq) = 2
  /\ BLen(wq[1]) = CHUNK /\ BLen(wq[2]) = CHUNK
  /\ payload # <<>> /\ BLen(payload) <= THRESHOLD

\* C20: the sink is called at most once per copy_from call: once, by the
\* helper, when a session was made; once, on the whole buffer, when
\* copy_from returns without a session and with bytes buffered; never for
\* an empty record sequence; never both in memory and through the pipe.
C20_SinkCalledOnce ==
  /\ sinkCalls <= 1
  /\ threads = 1 => (sinkCalls = 1 /\ helper # "none")
  /\ (cf = "returned" /\ ~use_thread /\ payload # <<>>) =>
       (sinkCalls = 1 /\ threads = 0 /\ sink = MemoryFile)
  /\ (cf = "returned" /\ ~use_thread /\ payload = <<>>) => sinkCalls = 0
  /\ objs = <<>> => sinkCalls = 0

\* the in-memory delivery of a buffer with a lazy entry
C20_Witness ==
  /\ cf = "returned" /\ ~use_thread /\ lazy # <<>>
  /\ sinkCalls = 1 /\ threads = 0 /\ sink # <<>>

====
